---- MODULE Spec2Model ----
(***************************************************************************)
(* Model of the chat server: the in-memory token store, the periodic       *)
(* sweep, the request dispatcher of handler() and the database functions   *)
(* of db.ts.  Two builds of the server are in the repository: server.ts    *)
(* (10 minute tokens, CORS on every response, sweep timer, 404 fallback)   *)
(* and an earlier server (1 hour tokens, no sweep timer, 400 fallback).    *)
(* The variable `variant` says which build is running.                     *)
(*                                                                         *)
(* A path is the array path.split("/") yields: "/users" is <<"","users">>. *)
(* A falsy body field (absent or "") is "", a falsy number is 0.           *)
(* Date.now() is the variable `now`, which never goes back.                *)
(***************************************************************************)
EXTENDS Integers, Sequences, FiniteSets, TLC

VARIABLES variant, now, events, nextSweep, tokenStore, users, messages, reqs,
          issued, removedBy, lateSeen

vars == <<variant, now, events, nextSweep, tokenStore, users, messages, reqs,
          issued, removedBy, lateSeen>>

-----------------------------------------------------------------------------
(* Bounds of the model *)

(* events of the clock, logins that issue a token and writes the store
   accepts: MaxEvents of them in one run; after that the clock stands and
   the store fails every query of a login or a write *)
MaxEvents == 4

ReqIds == {1}
Tokens == 1..MaxEvents
UserIds == {1, 2}

-----------------------------------------------------------------------------
(* Program constants *)

Variants == {"server", "legacy"}

TTL == IF variant = "server" THEN 10 * 60 * 1000 ELSE 3600 * 1000

SweepInterval == 10 * 60 * 1000

DbError == "connection refused"
JsonError == "Unexpected token in JSON"

-----------------------------------------------------------------------------
(* Inputs *)

Methods == {"GET", "POST", "OPTIONS"}

Paths == { <<"", "">>,
           <<"", "auth", "login">>,
           <<"", "users">>,
           <<"", "messages">>,
           <<"", "channels">>,
           <<"", "messages", "channel">>,
           <<"", "messages", "channel", "">>,
           <<"", "messages", "channel", "general">>,
           <<"", "messages", "channel", "%23random">>,
           <<"", "messages", "channel", "%">>,
           <<"", "messages", "channel", "general", "extra">>,
           <<"", "nope">> }

NoAuth == [scheme |-> "none", token |-> 0]
AuthHeaders == {NoAuth, [scheme |-> "Basic", token |-> 0]}
                 \cup {[scheme |-> "Bearer", token |-> t] : t \in Tokens}

(* the tokens a client presents: those issued and one that never was *)
Presented == {a \in AuthHeaders : a.token <= Cardinality(DOMAIN issued) + 1}

Exhausted == events >= MaxEvents

NoBody == [ok |-> TRUE, name |-> "", password |-> "", profile_picture_url |-> "",
           body |-> "", user_id |-> 0, channel |-> ""]
BadJson == [NoBody EXCEPT !.ok = FALSE]

LoginBodies == {BadJson} \cup
    {[NoBody EXCEPT !.name = n, !.password = p] :
        n \in {"", "alice", "bob"}, p \in {"", "pw1", "pw2"}}

UserBodies == {BadJson} \cup
    {[NoBody EXCEPT !.name = n, !.profile_picture_url = u, !.user_id = i] :
        n \in {"", "alice", "al2"}, u \in {"", "new.jpg"}, i \in {0} \cup UserIds}

MessageBodies == {BadJson} \cup
    {[NoBody EXCEPT !.body = b, !.user_id = u, !.channel = c] :
        b \in {"", "hi"}, u \in {0} \cup UserIds, c \in {"", "random"}}

-----------------------------------------------------------------------------
(* Responses *)

(* a response: `body` is its text when the body is a string (text/plain),
   `json` the value JSON.stringify was given when it is an object *)
NoJson == [none |-> TRUE]

NoResp == [status |-> 0, body |-> "", json |-> NoJson, cors |-> FALSE]

(* createResponse(body, status), typeof body === "string" *)
createResponse(body, status) ==
    [status |-> status, body |-> body, json |-> NoJson, cors |-> TRUE]

(* createResponse(body, status), typeof body === "object"; the earlier
   server's new Response(JSON.stringify(body), { status, headers }) *)
jsonResponse(object, status) ==
    [status |-> status, body |-> "", json |-> object, cors |-> TRUE]

(* new Response(text, { status }) of the earlier server: no headers *)
bareResponse(body, status) ==
    [status |-> status, body |-> body, json |-> NoJson, cors |-> FALSE]

errorResponse(body, status) ==
    IF variant = "server" THEN createResponse(body, status)
    ELSE bareResponse(body, status)

-----------------------------------------------------------------------------
(* Token store *)

(* a token named by the size of the table: a removed token's name comes back *)
generateTokenByTableSize == Cardinality(DOMAIN tokenStore) + 1

(* crypto.randomUUID(): a token no earlier login was given *)
generateToken == Cardinality(DOMAIN issued) + 1

(* a set that keeps one session per user: the user's other entries go *)
storeSetOnePerUser(store, token, data) ==
    [t \in {x \in DOMAIN store : store[x].userId # data.userId} \cup {token}
        |-> IF t = token THEN data ELSE store[t]]

storeSet(store, token, data) ==
    [t \in DOMAIN store \cup {token} |-> IF t = token THEN data ELSE store[t]]

storeDelete(store, token) == [t \in DOMAIN store \ {token} |-> store[t]]

(* the comparison turned round *)
isExpiredFlipped(expiry, t) == expiry > t

(* the comparison with the boundary instant taken in *)
isExpiredInclusive(expiry, t) == expiry <= t

(* tokenData.expiry < Date.now() *)
isExpired(expiry, t) == expiry < t

(* verifyToken answering an expired token like an unknown one *)
verifyTokenSameText(auth, store, t) ==
    IF auth.scheme # "Bearer"
    THEN [rejected |-> TRUE, userId |-> 0, store |-> store,
          resp |-> errorResponse("Missing or invalid Authorization header", 401)]
    ELSE IF auth.token \notin DOMAIN store
    THEN [rejected |-> TRUE, userId |-> 0, store |-> store,
          resp |-> errorResponse("Invalid token", 401)]
    ELSE IF store[auth.token].expiry < t
    THEN [rejected |-> TRUE, userId |-> 0, store |-> storeDelete(store, auth.token),
          resp |-> errorResponse("Invalid token", 401)]
    ELSE [rejected |-> FALSE, userId |-> store[auth.token].userId, store |-> store,
          resp |-> NoResp]

(* verifyToken without tokenStore.delete *)
verifyTokenNoEvict(auth, store, t) ==
    IF auth.scheme # "Bearer"
    THEN [rejected |-> TRUE, userId |-> 0, store |-> store,
          resp |-> errorResponse("Missing or invalid Authorization header", 401)]
    ELSE IF auth.token \notin DOMAIN store
    THEN [rejected |-> TRUE, userId |-> 0, store |-> store,
          resp |-> errorResponse("Invalid token", 401)]
    ELSE IF store[auth.token].expiry < t
    THEN [rejected |-> TRUE, userId |-> 0, store |-> store,
          resp |-> errorResponse("Token expired", 401)]
    ELSE [rejected |-> FALSE, userId |-> store[auth.token].userId, store |-> store,
          resp |-> NoResp]

(* verifyToken giving a token it lets through a new expiry (sliding window) *)
verifyTokenSliding(auth, store, t) ==
    IF auth.scheme # "Bearer"
    THEN [rejected |-> TRUE, userId |-> 0, store |-> store,
          resp |-> errorResponse("Missing or invalid Authorization header", 401)]
    ELSE IF auth.token \notin DOMAIN store
    THEN [rejected |-> TRUE, userId |-> 0, store |-> store,
          resp |-> errorResponse("Invalid token", 401)]
    ELSE IF store[auth.token].expiry < t
    THEN [rejected |-> TRUE, userId |-> 0, store |-> storeDelete(store, auth.token),
          resp |-> errorResponse("Token expired", 401)]
    ELSE [rejected |-> FALSE, userId |-> store[auth.token].userId,
          store |-> [store EXCEPT ![auth.token].expiry = t + TTL],
          resp |-> NoResp]

(* verifyToken clearing every expired entry when it finds the presented one
   expired *)
verifyTokenPurge(auth, store, t) ==
    IF auth.scheme # "Bearer"
    THEN [rejected |-> TRUE, userId |-> 0, store |-> store,
          resp |-> errorResponse("Missing or invalid Authorization header", 401)]
    ELSE IF auth.token \notin DOMAIN store
    THEN [rejected |-> TRUE, userId |-> 0, store |-> store,
          resp |-> errorResponse("Invalid token", 401)]
    ELSE IF store[auth.token].expiry < t
    THEN [rejected |-> TRUE, userId |-> 0,
          store |-> [x \in {y \in DOMAIN store : ~(store[y].expiry < t)} |-> store[x]],
          resp |-> errorResponse("Token expired", 401)]
    ELSE [rejected |-> FALSE, userId |-> store[auth.token].userId, store |-> store,
          resp |-> NoResp]

(* verifyToken with the return after tokenStore.delete left out: the expired
   token is deleted and its user id handed on *)
verifyTokenFallsThrough(auth, store, t) ==
    IF auth.scheme # "Bearer"
    THEN [rejected |-> TRUE, userId |-> 0, store |-> store,
          resp |-> errorResponse("Missing or invalid Authorization header", 401)]
    ELSE IF auth.token \notin DOMAIN store
    THEN [rejected |-> TRUE, userId |-> 0, store |-> store,
          resp |-> errorResponse("Invalid token", 401)]
    ELSE IF store[auth.token].expiry < t
    THEN [rejected |-> FALSE, userId |-> store[auth.token].userId,
          store |-> storeDelete(store, auth.token), resp |-> NoResp]
    ELSE [rejected |-> FALSE, userId |-> store[auth.token].userId, store |-> store,
          resp |-> NoResp]

(* verifyToken(req): the verdict, and the table after it *)
verifyToken(auth, store, t) ==
    IF auth.scheme # "Bearer"
    THEN [rejected |-> TRUE, userId |-> 0, store |-> store,
          resp |-> errorResponse("Missing or invalid Authorization header", 401)]
    ELSE IF auth.token \notin DOMAIN store
    THEN [rejected |-> TRUE, userId |-> 0, store |-> store,
          resp |-> errorResponse("Invalid token", 401)]
    ELSE IF isExpired(store[auth.token].expiry, t)
    THEN [rejected |-> TRUE, userId |-> 0, store |-> storeDelete(store, auth.token),
          resp |-> errorResponse("Token expired", 401)]
    ELSE [rejected |-> FALSE, userId |-> store[auth.token].userId, store |-> store,
          resp |-> NoResp]

(* the for..of loop of the sweep: one entry at a time *)
RECURSIVE sweepLoop(_, _, _)
sweepLoop(pending, store, t) ==
    IF pending = {} THEN store
    ELSE LET token == CHOOSE x \in pending : TRUE
             next == IF store[token].expiry < t THEN storeDelete(store, token)
                     ELSE store
         IN sweepLoop(pending \ {token}, next, t)

(* a sweep that also deletes the entries expiring at t *)
sweepInclusive(store, t) ==
    [x \in {y \in DOMAIN store : ~(store[y].expiry <= t)} |-> store[x]]

sweep(store, t) == sweepLoop(DOMAIN store, store, t)

-----------------------------------------------------------------------------
(* db.ts; `fail` says the query throws *)

(* a lookup that leaves the password out of the WHERE clause *)
validateUserNameOnly(name, password, fail) ==
    IF fail THEN 0
    ELSE LET hit == {u \in DOMAIN users : users[u].name = name}
         IN IF hit = {} THEN 0 ELSE CHOOSE u \in hit : TRUE

validateUser(name, password, fail) ==
    IF fail THEN 0
    ELSE LET hit == {u \in DOMAIN users :
                        users[u].name = name /\ users[u].password = password}
         IN IF hit = {} THEN 0 ELSE CHOOSE u \in hit : TRUE

userRow(tbl, id) ==
    [id |-> id, name |-> tbl[id].name,
     profile_picture_url |-> tbl[id].profile_picture_url]

getUsers == {userRow(users, u) : u \in DOMAIN users}

(* an update that takes the row to change from the body *)
updateUserByBody(id, updates, fail) ==
    LET target == IF updates.user_id \in DOMAIN users THEN updates.user_id ELSE id
    IN IF fail \/ \E o \in DOMAIN users \ {target} : users[o].name = updates.name
       THEN [thrown |-> TRUE, message |-> "Server error updating user", users |-> users]
       ELSE [thrown |-> FALSE, message |-> "",
             users |-> [users EXCEPT ![target].name = updates.name,
                          ![target].profile_picture_url = updates.profile_picture_url]]

updateUser(id, updates, fail) ==
    IF fail \/ \E o \in DOMAIN users \ {id} :
                   id \in DOMAIN users /\ users[o].name = updates.name
    THEN [thrown |-> TRUE, message |-> "Server error updating user", users |-> users]
    ELSE IF id \notin DOMAIN users
    THEN [thrown |-> TRUE, message |-> "User not found", users |-> users]
    ELSE [thrown |-> FALSE, message |-> "",
          users |-> [users EXCEPT ![id].name = updates.name,
                        ![id].profile_picture_url = updates.profile_picture_url]]

RECURSIVE Reverse(_)
Reverse(s) == IF s = <<>> THEN <<>> ELSE Append(Reverse(Tail(s)), Head(s))

getMessages == Reverse(messages)

getMessagesByChannel(channel) ==
    Reverse(SelectSeq(messages, LAMBDA m : m.channel = channel))

addMessage(message) ==
    Append(messages,
           [id |-> Len(messages) + 1, body |-> message.body,
            user_id |-> message.user_id,
            channel |-> IF message.channel = "" THEN "general" ELSE message.channel])

getChannels == {messages[i].channel : i \in 1..Len(messages)}

-----------------------------------------------------------------------------
(* handler(): the dispatcher *)

pathEquals(path, segments) == path = <<"">> \o segments

(* path.startsWith("/messages/channel/") *)
startsWithChannel(path) ==
    Len(path) >= 4 /\ SubSeq(path, 1, 3) = <<"", "messages", "channel">>

(* path.split("/")[3] *)
channelSegment(path) == path[4]

(* decodeURIComponent on the segments of Paths; a lone "%" is a URIError *)
decodeURIComponent(segment) ==
    CASE segment = "%" -> [thrown |-> TRUE, value |-> ""]
      [] segment = "%23random" -> [thrown |-> FALSE, value |-> "#random"]
      [] OTHER -> [thrown |-> FALSE, value |-> segment]

(* the chain of if-statements of handler(), first match wins *)
Route(method, path) ==
    CASE method = "OPTIONS" /\ variant = "server" -> "options"
      [] method = "POST" /\ pathEquals(path, <<"auth", "login">>) -> "login"
      [] method = "GET" /\ pathEquals(path, <<"users">>) -> "getUsers"
      [] method = "POST" /\ pathEquals(path, <<"users">>) -> "postUsers"
      [] method = "GET" /\ pathEquals(path, <<"messages">>) -> "getMessages"
      [] method = "GET" /\ startsWithChannel(path) -> "channel"
      [] method = "POST" /\ pathEquals(path, <<"messages">>) -> "postMessages"
      [] method = "GET" /\ pathEquals(path, <<"channels">>) -> "getChannels"
      [] method = "GET" /\ pathEquals(path, <<"">>) /\ variant = "server" -> "root"
      [] OTHER -> "notFound"

notFoundStatus == IF variant = "server" THEN 404 ELSE 400

optionsResponse == [status |-> 204, body |-> "", json |-> NoJson, cors |-> TRUE]

Idle == [pc |-> "idle", method |-> "", path |-> <<>>, route |-> "",
         auth |-> [scheme |-> "unread", token |-> 0], userId |-> 0,
         arg |-> NoBody, claimed |-> 0, failed |-> FALSE, stale |-> FALSE,
         resp |-> NoResp]

Finish(r, resp) == reqs' = [reqs EXCEPT ![r].pc = "done", ![r].resp = resp]

(* the same, after a query of the store threw *)
FinishFailed(r, resp) ==
    reqs' = [reqs EXCEPT ![r].pc = "done", ![r].resp = resp, ![r].failed = TRUE]

(* the same, after a write the store accepted; `stale` records that the
   request's token was out of the table, or past its expiry, at the write *)
FinishWrite(r, resp) ==
    reqs' = [reqs EXCEPT ![r].pc = "done", ![r].resp = resp,
                         ![r].stale =
                            \/ reqs[r].auth.token \notin DOMAIN tokenStore
                            \/ tokenStore[reqs[r].auth.token].expiry < now]

(* { user_id: userId, ...body }: the spread put last *)
messageOfBodyWins(body, userId) ==
    IF body.user_id # 0 THEN body ELSE [body EXCEPT !.user_id = userId]

(* { ...body, user_id: userId } *)
messageOf(body, userId) == [body EXCEPT !.user_id = userId]

(* the rows of the users table when the server starts *)
InitialUsers ==
    [u \in UserIds |->
       IF u = 1
       THEN [name |-> "alice", password |-> "pw1", profile_picture_url |-> "a.jpg"]
       ELSE [name |-> "bob", password |-> "pw2", profile_picture_url |-> "b.jpg"]]

-----------------------------------------------------------------------------
Init ==
    /\ variant \in Variants
    /\ now = 0
    /\ events = 0
    /\ nextSweep = SweepInterval
    /\ tokenStore = <<>>
    /\ users = InitialUsers
    /\ messages = <<>>
    /\ reqs = [r \in ReqIds |-> Idle]
    /\ issued = <<>>
    /\ removedBy = <<>>
    /\ lateSeen = {}

(* time passes *)
Tick ==
    /\ ~Exhausted
    /\ \E d \in {1, TTL} : now' = now + d
    /\ events' = events + 1
    /\ UNCHANGED <<variant, nextSweep, tokenStore, users, messages, reqs, issued,
                   removedBy, lateSeen>>

(* the setInterval callback of server.ts *)
Sweep ==
    /\ variant = "server"
    /\ now >= nextSweep
    /\ nextSweep' = nextSweep + SweepInterval
    /\ tokenStore' = sweep(tokenStore, now)
    /\ removedBy' = [t \in DOMAIN removedBy \cup (DOMAIN tokenStore \ DOMAIN tokenStore')
                       |-> IF t \in DOMAIN removedBy THEN removedBy[t] ELSE "sweep"]
    /\ UNCHANGED <<variant, now, events, users, messages, reqs, issued, lateSeen>>

(* a request with one of these methods and paths arrives: handler() up to
   its first await *)
ReceiveFrom(r, methods, paths) ==
    /\ reqs[r].pc = "idle"
    /\ \E method \in methods, path \in paths, auth \in Presented :
        LET route == Route(method, path)
            base == [Idle EXCEPT !.method = method, !.path = path, !.route = route]
            gate == verifyToken(auth, tokenStore, now)
            gated == [base EXCEPT !.auth = auth, !.userId = gate.userId]
            decoded == decodeURIComponent(channelSegment(path))
            done(q, resp) == [reqs EXCEPT ![r] = [q EXCEPT !.pc = "done", !.resp = resp]]
            wait(q, pc) == [reqs EXCEPT ![r] = [q EXCEPT !.pc = pc]]
        IN
        /\ reqs' =
             CASE route = "options" -> done(base, optionsResponse)
               [] route = "login" -> wait(base, "login_json")
               [] route = "getUsers" -> wait(base, "getUsers")
               [] route = "postUsers" ->
                     IF gate.rejected THEN done(gated, gate.resp)
                     ELSE wait(gated, "users_json")
               [] route = "getMessages" -> wait(base, "getMessages")
               [] route = "channel" ->
                     IF channelSegment(path) = ""
                     THEN done(base, errorResponse("Channel not specified", 400))
                     ELSE IF decoded.thrown
                     THEN done(base,
                               errorResponse("Server error retrieving channel messages", 500))
                     ELSE wait([base EXCEPT !.arg.channel = decoded.value],
                               "getMessagesByChannel")
               [] route = "postMessages" ->
                     IF gate.rejected THEN done(gated, gate.resp)
                     ELSE wait(gated, "messages_json")
               [] route = "getChannels" -> wait(base, "getChannels")
               [] route = "root" ->
                     done(base, jsonResponse([status |-> "OK",
                                              message |-> "Welcome to the Chat Server API",
                                              version |-> "1.0.0"], 200))
               [] OTHER -> done(base, errorResponse("Not found", notFoundStatus))
        /\ tokenStore' = IF route \in {"postUsers", "postMessages"} THEN gate.store
                         ELSE tokenStore
        /\ removedBy' =
             [t \in DOMAIN removedBy \cup (DOMAIN tokenStore \ DOMAIN tokenStore')
                |-> IF t \in DOMAIN removedBy THEN removedBy[t] ELSE "resolve"]
        /\ lateSeen' =
             IF /\ route \in {"postUsers", "postMessages"}
                /\ auth.scheme = "Bearer"
                /\ auth.token \in DOMAIN issued
                /\ issued[auth.token].expiry < now
             THEN lateSeen \cup {auth.token}
             ELSE lateSeen
    /\ UNCHANGED <<variant, now, events, nextSweep, users, messages, issued>>

(* a request arrives *)
Receive(r) == ReceiveFrom(r, Methods, Paths)

(* POST /auth/login: await req.json() and the check of name and password *)
LoginJson(r) ==
    /\ reqs[r].pc = "login_json"
    /\ \E body \in LoginBodies :
        IF ~body.ok THEN Finish(r, errorResponse(JsonError, 500))
        ELSE IF body.name = "" \/ body.password = ""
        THEN Finish(r, errorResponse("Missing name or password", 400))
        ELSE reqs' = [reqs EXCEPT ![r].pc = "validateUser", ![r].arg = body]
    /\ UNCHANGED <<variant, now, events, nextSweep, tokenStore, users, messages,
                   issued, removedBy, lateSeen>>

(* POST /auth/login: await validateUser(), then the token is issued *)
ValidateUser(r) ==
    /\ reqs[r].pc = "validateUser"
    /\ \E fail \in {TRUE} \cup {Exhausted} :
        LET user == validateUser(reqs[r].arg.name, reqs[r].arg.password, fail)
            token == generateToken
            expiry == now + TTL
        IN IF user = 0
           THEN /\ IF fail
                   THEN FinishFailed(r, errorResponse("Invalid credentials", 401))
                   ELSE Finish(r, errorResponse("Invalid credentials", 401))
                /\ UNCHANGED <<tokenStore, issued, events>>
           ELSE /\ tokenStore' = storeSet(tokenStore, token,
                                          [userId |-> user, expiry |-> expiry])
                /\ issued' = storeSet(issued, token,
                                      [userId |-> user, expiry |-> expiry])
                /\ events' = events + 1
                /\ Finish(r, jsonResponse([token |-> token, user_id |-> user,
                                             expiry |-> expiry], 200))
    /\ UNCHANGED <<variant, now, nextSweep, users, messages, removedBy, lateSeen>>

(* GET /users *)
GetUsers(r) ==
    /\ reqs[r].pc = "getUsers"
    /\ \E fail \in BOOLEAN :
        IF fail THEN FinishFailed(r, errorResponse("Server error retrieving users", 500))
        ELSE Finish(r, jsonResponse([users |-> getUsers], 200))
    /\ UNCHANGED <<variant, now, events, nextSweep, tokenStore, users, messages,
                   issued, removedBy, lateSeen>>

(* POST /users: await req.json() and the check of the two fields *)
UsersJson(r) ==
    /\ reqs[r].pc = "users_json"
    /\ \E body \in UserBodies :
        IF ~body.ok THEN Finish(r, errorResponse("Server error", 500))
        ELSE IF body.name = "" \/ body.profile_picture_url = ""
        THEN Finish(r, errorResponse("Missing name or profile_picture_url", 400))
        ELSE reqs' = [reqs EXCEPT ![r].pc = "updateUser", ![r].arg = body]
    /\ UNCHANGED <<variant, now, events, nextSweep, tokenStore, users, messages,
                   issued, removedBy, lateSeen>>

(* POST /users: await updateUser(userId, body) *)
UpdateUser(r) ==
    /\ reqs[r].pc = "updateUser"
    /\ \E fail \in {TRUE} \cup {Exhausted} :
        LET res == updateUser(reqs[r].userId, reqs[r].arg, fail)
        IN /\ users' = res.users
           /\ events' = IF res.thrown THEN events ELSE events + 1
           /\ IF ~res.thrown
              THEN FinishWrite(r, jsonResponse(userRow(res.users, reqs[r].userId), 200))
              ELSE IF res.message = "User not found"
              THEN Finish(r, errorResponse("User not found", 404))
              ELSE FinishFailed(r, errorResponse("Server error", 500))
    /\ UNCHANGED <<variant, now, nextSweep, tokenStore, messages, issued, removedBy, lateSeen>>

(* GET /messages *)
GetMessages(r) ==
    /\ reqs[r].pc = "getMessages"
    /\ \E fail \in BOOLEAN :
        IF fail THEN FinishFailed(r, errorResponse("Server error retrieving messages", 500))
        ELSE Finish(r, jsonResponse([messages |-> getMessages], 200))
    /\ UNCHANGED <<variant, now, events, nextSweep, tokenStore, users, messages,
                   issued, removedBy, lateSeen>>

(* GET /messages/channel/:channel *)
GetMessagesByChannel(r) ==
    /\ reqs[r].pc = "getMessagesByChannel"
    /\ \E fail \in BOOLEAN :
        IF fail
        THEN FinishFailed(r, errorResponse("Server error retrieving channel messages", 500))
        ELSE Finish(r, jsonResponse([messages |-> getMessagesByChannel(reqs[r].arg.channel)], 200))
    /\ UNCHANGED <<variant, now, events, nextSweep, tokenStore, users, messages,
                   issued, removedBy, lateSeen>>

(* POST /messages: await req.json() and the check of body *)
MessagesJson(r) ==
    /\ reqs[r].pc = "messages_json"
    /\ \E body \in MessageBodies :
        IF ~body.ok THEN Finish(r, errorResponse(JsonError, 500))
        ELSE IF body.body = ""
        THEN Finish(r, errorResponse("Missing body", 400))
        ELSE reqs' = [reqs EXCEPT ![r].pc = "addMessage",
                                  ![r].claimed = body.user_id,
                                  ![r].arg = messageOf(body, reqs[r].userId)]
    /\ UNCHANGED <<variant, now, events, nextSweep, tokenStore, users, messages,
                   issued, removedBy, lateSeen>>

(* POST /messages checking the token again before the insert *)
AddMessageRechecked(r) ==
    /\ reqs[r].pc = "addMessage"
    /\ LET gate == verifyToken(reqs[r].auth, tokenStore, now)
       IN \E fail \in {TRUE} \cup {Exhausted} :
            IF gate.rejected
            THEN /\ Finish(r, gate.resp)
                 /\ UNCHANGED <<messages, events>>
            ELSE IF fail
            THEN /\ FinishFailed(r, errorResponse(DbError, 500))
                 /\ UNCHANGED <<messages, events>>
            ELSE /\ messages' = addMessage(reqs[r].arg)
                 /\ events' = events + 1
                 /\ FinishWrite(r, jsonResponse(messages'[Len(messages')], 201))
    /\ UNCHANGED <<variant, now, nextSweep, tokenStore, users, issued, removedBy, lateSeen>>

(* POST /messages: await addMessage(message) *)
AddMessage(r) ==
    /\ reqs[r].pc = "addMessage"
    /\ \E fail \in {TRUE} \cup {Exhausted} :
        IF fail
        THEN /\ FinishFailed(r, errorResponse(DbError, 500))
             /\ UNCHANGED <<messages, events>>
        ELSE /\ messages' = addMessage(reqs[r].arg)
             /\ events' = events + 1
             /\ FinishWrite(r, jsonResponse(messages'[Len(messages')], 201))
    /\ UNCHANGED <<variant, now, nextSweep, tokenStore, users, issued, removedBy, lateSeen>>

(* GET /channels *)
GetChannels(r) ==
    /\ reqs[r].pc = "getChannels"
    /\ \E fail \in BOOLEAN :
        IF fail THEN FinishFailed(r, errorResponse("Server error retrieving channels", 500))
        ELSE Finish(r, jsonResponse([channels |-> getChannels], 200))
    /\ UNCHANGED <<variant, now, events, nextSweep, tokenStore, users, messages,
                   issued, removedBy, lateSeen>>

(* the response is sent; the slot takes the next request *)
Respond(r) ==
    /\ reqs[r].pc = "done"
    /\ reqs' = [reqs EXCEPT ![r] = Idle]
    /\ UNCHANGED <<variant, now, events, nextSweep, tokenStore, users, messages,
                   issued, removedBy, lateSeen>>

Next ==
    \/ Tick
    \/ Sweep
    \/ \E r \in ReqIds : Receive(r)
    \/ \E r \in ReqIds : LoginJson(r)
    \/ \E r \in ReqIds : ValidateUser(r)
    \/ \E r \in ReqIds : GetUsers(r)
    \/ \E r \in ReqIds : UsersJson(r)
    \/ \E r \in ReqIds : UpdateUser(r)
    \/ \E r \in ReqIds : GetMessages(r)
    \/ \E r \in ReqIds : GetMessagesByChannel(r)
    \/ \E r \in ReqIds : MessagesJson(r)
    \/ \E r \in ReqIds : AddMessage(r)
    \/ \E r \in ReqIds : GetChannels(r)
    \/ \E r \in ReqIds : Respond(r)

Spec == Init /\ [][Next]_vars

-----------------------------------------------------------------------------
(* Two requests in flight at once: handler() is async, so a second call
   starts while the first is suspended at an await. The requests are those
   of the two protected routes, and the server has answered one login, of
   user 1 at instant 0, before they arrive. *)

Slots == {1, 2}

ProtectedPaths == {<<"", "users">>, <<"", "messages">>}

FirstSession == [userId |-> 1, expiry |-> TTL]

InitOverlap ==
    /\ variant \in Variants
    /\ now = 0
    /\ events = 1
    /\ nextSweep = SweepInterval
    /\ tokenStore = <<FirstSession>>
    /\ users = InitialUsers
    /\ messages = <<>>
    /\ reqs = [r \in Slots |-> Idle]
    /\ issued = <<FirstSession>>
    /\ removedBy = <<>>
    /\ lateSeen = {}

ReceiveProtected(r) == ReceiveFrom(r, {"POST"}, ProtectedPaths)

NextOverlap ==
    \/ Tick
    \/ Sweep
    \/ \E r \in Slots : ReceiveProtected(r)
    \/ \E r \in Slots : UsersJson(r)
    \/ \E r \in Slots : UpdateUser(r)
    \/ \E r \in Slots : MessagesJson(r)
    \/ \E r \in Slots : AddMessage(r)
    \/ \E r \in Slots : Respond(r)

OverlapSpec == InitOverlap /\ [][NextOverlap]_vars

(* time goes on, and the setInterval timer fires when it is due *)
FairSpec == Spec /\ WF_now(Tick) /\ WF_nextSweep(Sweep)

-----------------------------------------------------------------------------
(* Steps and states the properties speak of *)

Protected == {"postUsers", "postMessages"}

(* request r reaches the gate of a protected route in this step *)
Gated(r) == reqs[r].pc = "idle" /\ reqs'[r].route \in Protected

(* ... presenting "Authorization: Bearer t" *)
Presents(r, t) == Gated(r) /\ reqs'[r].auth = [scheme |-> "Bearer", token |-> t]

(* the gate answers r with 401 and this text *)
Rejected(r, text) ==
    /\ reqs'[r].pc = "done"
    /\ reqs'[r].resp.status = 401
    /\ reqs'[r].resp.body = text

(* the gate lets r through as user u *)
Resolved(r, u) == reqs'[r].pc # "done" /\ reqs'[r].userId = u

(* r has its answer *)
Answered(r) == reqs[r].pc = "done"

(* the sweep timer fires in this step *)
SweepStep == nextSweep' # nextSweep

-----------------------------------------------------------------------------
(* C1: a token presented strictly before its expiry resolves to the id of
   the user whose login issued it, whatever logins, resolves and sweeps
   came in between. *)
C1_ResolvesBeforeExpiry ==
    [][\A r \in ReqIds : \A t \in DOMAIN issued :
          Presents(r, t) /\ now < issued[t].expiry
             => Resolved(r, issued[t].userId)]_vars

C1_Witness ==
    \E r \in ReqIds : \E t \in DOMAIN issued :
        /\ reqs[r].pc \in {"users_json", "messages_json"}
        /\ reqs[r].auth.token = t
        /\ reqs[r].userId = issued[t].userId
        /\ now < issued[t].expiry
        /\ \E s \in DOMAIN removedBy : s # t /\ removedBy[s] = "sweep"

(* C2 as stated: the first request presenting a token after its expiry has
   passed is answered 401 "Token expired", sweeps in between or not. *)
C2_FirstLateUseSaysExpired ==
    [][\A r \in ReqIds : \A t \in DOMAIN issued :
          Presents(r, t) /\ issued[t].expiry < now /\ t \notin lateSeen
             => Rejected(r, "Token expired")]_vars

(* C2 amended: that request is answered 401; the text is "Token expired"
   when the token is still in the table and "Invalid token" when a sweep
   has removed it since its expiry. *)
C2_FirstLateUseRejected ==
    [][\A r \in ReqIds : \A t \in DOMAIN issued :
          Presents(r, t) /\ issued[t].expiry < now /\ t \notin lateSeen
             => IF t \in DOMAIN tokenStore
                THEN Rejected(r, "Token expired")
                ELSE /\ Rejected(r, "Invalid token")
                     /\ t \in DOMAIN removedBy
                     /\ removedBy[t] = "sweep"]_vars

C2_Witness ==
    \E r \in ReqIds : \E t \in lateSeen :
        /\ Answered(r)
        /\ reqs[r].route \in Protected
        /\ reqs[r].auth.token = t
        /\ reqs[r].resp.status = 401
        /\ reqs[r].resp.body = "Invalid token"
        /\ t \in DOMAIN removedBy
        /\ removedBy[t] = "sweep"

(* C3 as stated: a resolve of a token in the table with expiry <= now,
   the instant now = expiry included, deletes it and signals Expired. *)
C3_ExpiredAtOrAfterExpiry ==
    [][\A r \in ReqIds : \A t \in DOMAIN tokenStore :
          Presents(r, t) /\ tokenStore[t].expiry <= now
             => Rejected(r, "Token expired") /\ t \notin DOMAIN tokenStore']_vars

(* C3 amended: a resolve of a token in the table with expiry < now deletes
   it and signals Expired, and the user id is never returned after the
   expiry instant; at the instant now = expiry the token still resolves
   and stays in the table. *)
C3_ExpiredAfterExpiry ==
    [][\A r \in ReqIds :
          /\ \A t \in DOMAIN tokenStore :
                Presents(r, t) =>
                   IF tokenStore[t].expiry < now
                   THEN Rejected(r, "Token expired") /\ t \notin DOMAIN tokenStore'
                   ELSE Resolved(r, tokenStore[t].userId) /\ tokenStore' = tokenStore
          /\ Gated(r) /\ reqs'[r].pc # "done"
                => /\ reqs'[r].auth.token \in DOMAIN tokenStore
                   /\ tokenStore[reqs'[r].auth.token].expiry >= now]_vars

C3_Witness ==
    \E r \in ReqIds : \E t \in DOMAIN issued :
        /\ Answered(r)
        /\ reqs[r].auth.token = t
        /\ reqs[r].resp.status = 401
        /\ reqs[r].resp.body = "Token expired"
        /\ issued[t].expiry < now
        /\ t \notin DOMAIN tokenStore
        /\ removedBy[t] = "resolve"

(* C4 as stated: after a sweep at instant now the table is the entries of
   before whose expiry is later than now. *)
C4_SweepKeepsLater ==
    [][SweepStep =>
          tokenStore' = [t \in {x \in DOMAIN tokenStore : tokenStore[x].expiry > now}
                           |-> tokenStore[t]]]_vars

(* C4 amended: after a sweep at instant now the table is the entries of
   before whose expiry is now or later: no entry with expiry < now is
   left, the others are there with the same user id and expiry. *)
C4_SweepKeepsNowOrLater ==
    [][SweepStep =>
          tokenStore' = [t \in {x \in DOMAIN tokenStore : tokenStore[x].expiry >= now}
                           |-> tokenStore[t]]]_vars

C4_Witness ==
    /\ \E s \in DOMAIN removedBy : removedBy[s] = "sweep"
    /\ \E t \in DOMAIN tokenStore : tokenStore[t].expiry = now
    /\ nextSweep > now

(* C5: the user_id handed to addMessage, and stored, is the id the gate
   resolved from the request's token, whatever user_id the body carries. *)
C5_MessageOwnerIsCaller ==
    \A r \in ReqIds :
        /\ reqs[r].pc = "addMessage"
              => /\ reqs[r].arg.user_id = reqs[r].userId
                 /\ reqs[r].userId = issued[reqs[r].auth.token].userId
        /\ Answered(r) /\ reqs[r].resp.status = 201
              => /\ reqs[r].resp.json.user_id = issued[reqs[r].auth.token].userId
                 /\ \E i \in 1..Len(messages) :
                       /\ messages[i].id = reqs[r].resp.json.id
                       /\ messages[i].user_id = reqs[r].userId

C5_Witness ==
    \E r \in ReqIds :
        /\ Answered(r)
        /\ reqs[r].resp.status = 201
        /\ reqs[r].claimed \notin {0, reqs[r].userId}
        /\ reqs[r].resp.json.user_id = reqs[r].userId

(* C6: a row of the users table changes only in the updateUser step of a
   POST /users whose token was issued to that row's user; every other row
   is left as it was, whatever the body says. *)
C6_UpdateOnlyOwnRow ==
    [][\A u \in DOMAIN users :
          users'[u] # users[u] =>
             \E r \in ReqIds :
                /\ reqs[r].pc = "updateUser"
                /\ reqs'[r].pc = "done"
                /\ reqs[r].route = "postUsers"
                /\ reqs[r].userId = u
                /\ issued[reqs[r].auth.token].userId = u
                /\ \A o \in DOMAIN users \ {u} : users'[o] = users[o]]_vars

C6_Witness ==
    \E r \in ReqIds :
        /\ Answered(r)
        /\ reqs[r].route = "postUsers"
        /\ reqs[r].resp.status = 200
        /\ reqs[r].arg.user_id \notin {0, reqs[r].userId}
        /\ users[reqs[r].userId].name = reqs[r].arg.name
        /\ users[reqs[r].userId] # InitialUsers[reqs[r].userId]
        /\ \A o \in DOMAIN users \ {reqs[r].userId} : users[o] = InitialUsers[o]

(* C7: on POST /users and POST /messages a request with no Authorization
   header or another scheme gets 401, a Bearer token that is not in the
   table gets 401, and an expired token gets 401 and is out of the table
   afterwards. *)
C7_GateRejects ==
    [][\A r \in ReqIds :
          Gated(r) =>
             LET a == reqs'[r].auth
                 is401 == reqs'[r].pc = "done" /\ reqs'[r].resp.status = 401
             IN /\ a.scheme \in {"none", "Basic", "Bearer"}
                /\ a.scheme # "Bearer" => is401 /\ tokenStore' = tokenStore
                /\ a.scheme = "Bearer" /\ a.token \notin DOMAIN tokenStore
                      => is401 /\ tokenStore' = tokenStore
                /\ a.scheme = "Bearer" /\ a.token \in DOMAIN tokenStore
                      => (tokenStore[a.token].expiry < now
                            => is401 /\ a.token \notin DOMAIN tokenStore')]_vars

C7_Witness ==
    \E r \in ReqIds : \E t \in lateSeen :
        /\ Answered(r)
        /\ reqs[r].route = "postUsers"
        /\ reqs[r].auth = [scheme |-> "Bearer", token |-> t]
        /\ reqs[r].resp = errorResponse("Token expired", 401)
        /\ t \notin DOMAIN tokenStore

(* C8: the table gains an entry only in the step of a login whose name and
   password match a stored user: exactly one new entry, for that user,
   with the expiry of the 200 response; a login answered 400 or 401
   leaves the table as it was. *)
C8_OnlyLoginIssues ==
    [][/\ DOMAIN tokenStore' \ DOMAIN tokenStore # {} =>
             \E r \in ReqIds :
                /\ reqs[r].pc = "validateUser"
                /\ reqs'[r].pc = "done"
                /\ reqs'[r].resp.status = 200
                /\ LET b == reqs'[r].resp.json
                   IN /\ b.user_id \in DOMAIN users
                      /\ users[b.user_id].name = reqs[r].arg.name
                      /\ users[b.user_id].password = reqs[r].arg.password
                      /\ b.token \notin DOMAIN tokenStore
                      /\ DOMAIN tokenStore' = DOMAIN tokenStore \cup {b.token}
                      /\ tokenStore'[b.token] =
                            [userId |-> b.user_id, expiry |-> b.expiry]
                      /\ \A t \in DOMAIN tokenStore : tokenStore'[t] = tokenStore[t]
       /\ \A r \in ReqIds :
             /\ reqs[r].route = "login"
             /\ reqs[r].pc # "done"
             /\ reqs'[r].pc = "done"
             => IF reqs'[r].resp.status = 200
                THEN DOMAIN tokenStore' \ DOMAIN tokenStore # {}
                ELSE tokenStore' = tokenStore]_vars

C8_Witness ==
    \E r \in ReqIds :
        /\ Answered(r)
        /\ reqs[r].route = "login"
        /\ reqs[r].resp.status = 200
        /\ reqs[r].resp.json.token \in DOMAIN tokenStore
        /\ tokenStore[reqs[r].resp.json.token] =
              [userId |-> reqs[r].resp.json.user_id,
               expiry |-> reqs[r].resp.json.expiry]
        /\ users[reqs[r].resp.json.user_id].name = reqs[r].arg.name

(* the routing table, matched segment by segment; {channel} is one segment *)
ExactRoute(method, path) ==
    \/ method = "OPTIONS"
    \/ method = "POST" /\ path \in {<<"", "auth", "login">>, <<"", "users">>,
                                     <<"", "messages">>}
    \/ method = "GET" /\ path \in {<<"", "users">>, <<"", "messages">>,
                                    <<"", "channels">>, <<"", "">>}
    \/ method = "GET" /\ Len(path) = 4
                      /\ SubSeq(path, 1, 3) = <<"", "messages", "channel">>

(* C9: server.ts hands a request to a route's handler exactly when method
   and path match that route segment by segment; every other request,
   a GET with segments after the channel segment too, is answered 404
   "Not found". *)
C9_ExactSegmentRouting ==
    \A r \in ReqIds :
        variant = "server" /\ Answered(r) =>
            IF ExactRoute(reqs[r].method, reqs[r].path)
            THEN reqs[r].route # "notFound"
            ELSE /\ reqs[r].route = "notFound"
                 /\ reqs[r].resp.status = 404
                 /\ reqs[r].resp.body = "Not found"

(* C10: a request during which a query of the store failed is answered 500
   with a text that is not the error's own message. *)
C10_StoreFailureIsGeneric500 ==
    \A r \in ReqIds :
        Answered(r) /\ reqs[r].failed
            => reqs[r].resp.status = 500 /\ reqs[r].resp.body # DbError

-----------------------------------------------------------------------------
(* C11: every entry a login adds to the table has expiry = the instant of
   the login + 1 hour (3 600 000 ms), in both builds. *)
C11_TtlIsOneHour ==
    [][\A t \in DOMAIN tokenStore' \ DOMAIN tokenStore :
          tokenStore'[t].expiry = now + 3600 * 1000]_vars

(* C12: every response that is sent, of any route and any status, carries
   Access-Control-Allow-Origin: *. *)
C12_EveryResponseHasCors ==
    [][\A r \in DOMAIN reqs :
          Answered(r) /\ reqs'[r].pc = "idle" => reqs[r].resp.cors]_vars

(* a login answered 200 in this step *)
LoginIssues(r) ==
    /\ reqs[r].pc = "validateUser"
    /\ reqs'[r].pc = "done"
    /\ reqs'[r].resp.status = 200

(* C13: a successful login removes and changes no entry of the table: every
   entry of before is there with the same user id and expiry, and a
   token of before that has not reached its expiry, of the same user or of
   another, still resolves to its user id in the table of after. *)
C13_LoginKeepsSessions ==
    [][\A r \in DOMAIN reqs :
          LoginIssues(r) =>
             \A t \in DOMAIN tokenStore :
                /\ t \in DOMAIN tokenStore'
                /\ tokenStore'[t] = tokenStore[t]
                /\ now < tokenStore[t].expiry =>
                      LET gate == verifyToken([scheme |-> "Bearer", token |-> t],
                                              tokenStore', now')
                      IN ~gate.rejected /\ gate.userId = tokenStore[t].userId]_vars

(* a request let through on a token of a user who logged in again since *)
C13_Witness ==
    \E r \in DOMAIN reqs : \E t, s \in DOMAIN tokenStore :
        /\ t < s
        /\ tokenStore[t].userId = tokenStore[s].userId
        /\ reqs[r].pc \in {"users_json", "messages_json"}
        /\ reqs[r].auth = [scheme |-> "Bearer", token |-> t]
        /\ reqs[r].userId = tokenStore[t].userId

(* C14: a token that was deleted from the table, by a resolve that found it
   expired or by the sweep, is never in the table again, and every later
   request presenting it is answered 401 "Invalid token" and gets no user
   id; logins give fresh tokens. *)
C14_RemovalIsTerminal ==
    [][\A t \in DOMAIN removedBy :
          /\ t \notin DOMAIN tokenStore'
          /\ \A r \in DOMAIN reqs :
                Presents(r, t) =>
                   Rejected(r, "Invalid token") /\ reqs'[r].userId = 0]_vars

(* a token removed by a resolve, presented again after a later login *)
C14_Witness ==
    \E r \in DOMAIN reqs : \E t \in DOMAIN removedBy :
        /\ removedBy[t] = "resolve"
        /\ \E s \in DOMAIN tokenStore : s > t
        /\ Answered(r)
        /\ reqs[r].route \in Protected
        /\ reqs[r].auth = [scheme |-> "Bearer", token |-> t]
        /\ reqs[r].resp.status = 401
        /\ reqs[r].resp.body = "Invalid token"

(* C15: in every reachable state each entry of the table has the user id
   and the expiry its login gave it; resolves, sweeps and later logins
   change neither. *)
C15_ExpiryFixedAtIssuance ==
    \A t \in DOMAIN tokenStore :
        /\ t \in DOMAIN issued
        /\ tokenStore[t].userId = issued[t].userId
        /\ tokenStore[t].expiry = issued[t].expiry

(* an entry that was resolved after time passed, a sweep ran and another
   login came *)
C15_Witness ==
    \E r \in DOMAIN reqs : \E t, s \in DOMAIN tokenStore :
        /\ t < s
        /\ nextSweep > SweepInterval
        /\ reqs[r].pc \in {"users_json", "updateUser", "messages_json", "addMessage"}
        /\ reqs[r].auth = [scheme |-> "Bearer", token |-> t]
        /\ now > issued[t].expiry - TTL
        /\ tokenStore[t] = issued[t]

(* C16: a call of verifyToken changes the table only by deleting the token
   it was given, and only when that token is in the table with its expiry
   passed: with no or another header, an unknown token or a token before
   its expiry the table is as before, and in every case each other entry
   is as before. *)
C16_GateOnlyDeletesPresented ==
    [][\A r \in DOMAIN reqs :
          Gated(r) =>
             LET a == reqs'[r].auth
                 inTable == a.scheme = "Bearer" /\ a.token \in DOMAIN tokenStore
             IN /\ DOMAIN tokenStore' \subseteq DOMAIN tokenStore
                /\ \A x \in DOMAIN tokenStore \ {a.token} :
                      x \in DOMAIN tokenStore' /\ tokenStore'[x] = tokenStore[x]
                /\ ~inTable => tokenStore' = tokenStore
                /\ inTable /\ now < tokenStore[a.token].expiry
                      => tokenStore' = tokenStore
                /\ tokenStore' # tokenStore
                      => /\ inTable
                         /\ tokenStore[a.token].expiry < now
                         /\ DOMAIN tokenStore' = DOMAIN tokenStore \ {a.token}]_vars

(* an expired token was deleted by its resolve while another expired entry
   stayed *)
C16_Witness ==
    \E r \in DOMAIN reqs : \E t \in DOMAIN removedBy : \E s \in DOMAIN tokenStore :
        /\ removedBy[t] = "resolve"
        /\ Answered(r)
        /\ reqs[r].route \in Protected
        /\ reqs[r].auth = [scheme |-> "Bearer", token |-> t]
        /\ reqs[r].resp.body = "Token expired"
        /\ tokenStore[s].expiry < now

(* the header names a token the table holds with its expiry not passed *)
GateAdmits(a) ==
    /\ a.scheme = "Bearer"
    /\ a.token \in DOMAIN tokenStore
    /\ ~(tokenStore[a.token].expiry < now)

(* C17: a request on POST /users or POST /messages that the gate rejects has
   its 401 in the same step: its body is not read, so no 400 comes of it,
   no updateUser or addMessage is issued for it, and the 401 stays its
   answer until it is sent. *)
C17_RejectionIsTerminal ==
    [][\A r \in DOMAIN reqs :
          /\ Gated(r) /\ ~GateAdmits(reqs'[r].auth)
                => /\ reqs'[r].pc = "done"
                   /\ reqs'[r].resp.status = 401
                   /\ reqs'[r].arg = NoBody
                   /\ ~reqs'[r].failed
                   /\ users' = users
                   /\ messages' = messages
          /\ Answered(r) /\ reqs[r].route \in Protected /\ reqs[r].userId = 0
                => /\ reqs[r].resp.status = 401
                   /\ reqs'[r] \in {reqs[r], Idle}]_vars

(* a POST /messages with an expired token, answered 401, nothing stored *)
C17_Witness ==
    \E r \in DOMAIN reqs : \E t \in lateSeen :
        /\ Answered(r)
        /\ reqs[r].route = "postMessages"
        /\ reqs[r].auth = [scheme |-> "Bearer", token |-> t]
        /\ reqs[r].resp.status = 401
        /\ reqs[r].arg = NoBody
        /\ messages = <<>>

(* C20: a GET /messages/channel/{channel} whose channel segment is empty or
   is not a well-formed percent-encoding is answered 400, without a query
   of the store. *)
C20_BadChannelIs400 ==
    [][\A r \in DOMAIN reqs :
          /\ Answered(r)
          /\ reqs'[r].pc = "idle"
          /\ reqs[r].route = "channel"
          /\ \/ channelSegment(reqs[r].path) = ""
             \/ decodeURIComponent(channelSegment(reqs[r].path)).thrown
          => reqs[r].resp.status = 400 /\ ~reqs[r].failed]_vars

(* C19: with time going on and the sweep timer firing, an entry of the
   table whose expiry has passed at an instant a run of the 10-minute
   sweep is due is eventually deleted, presented again or not. *)
C19_ExpiredEventuallyRemoved ==
    \A t \in Tokens :
        (t \in DOMAIN tokenStore /\ tokenStore[t].expiry < now /\ now >= nextSweep)
           ~> (t \notin DOMAIN tokenStore)

(* C18: a request that presents a token after its expiry gets no user id,
   is answered 401 in that step and leaves the table without the token;
   when another request in flight was answered "Token expired" for the
   same token, this one is answered "Invalid token": of two overlapping
   requests at most one sees Expired, and the second delete has nothing
   left to delete. *)
C18_OneSeesExpired ==
    [][\A r \in DOMAIN reqs : \A t \in DOMAIN issued :
          Presents(r, t) /\ issued[t].expiry < now
             => /\ reqs'[r].pc = "done"
                /\ reqs'[r].userId = 0
                /\ reqs'[r].resp.status = 401
                /\ reqs'[r].resp.body \in {"Token expired", "Invalid token"}
                /\ t \notin DOMAIN tokenStore'
                /\ \A o \in DOMAIN reqs \ {r} :
                      /\ Answered(o)
                      /\ reqs[o].auth = [scheme |-> "Bearer", token |-> t]
                      /\ reqs[o].resp.body = "Token expired"
                      => /\ Rejected(r, "Invalid token")
                         /\ tokenStore' = tokenStore]_vars

(* two requests in flight, both with their answer for the same expired
   token: one "Token expired", the other "Invalid token" *)
C18_Witness ==
    \E r, o \in DOMAIN reqs : \E t \in DOMAIN removedBy :
        /\ r # o
        /\ removedBy[t] = "resolve"
        /\ t \notin DOMAIN tokenStore
        /\ Answered(r) /\ Answered(o)
        /\ reqs[r].auth = [scheme |-> "Bearer", token |-> t]
        /\ reqs[o].auth = [scheme |-> "Bearer", token |-> t]
        /\ reqs[r].resp = errorResponse("Token expired", 401)
        /\ reqs[o].resp = errorResponse("Invalid token", 401)

AfterGate == {"users_json", "updateUser", "messages_json", "addMessage"}

(* C21: a request let through by the gate is not checked again: its later
   steps leave the table alone, keep the user id the gate resolved and
   never answer 401, and its write, when the store accepts it, is made
   under that user id, whether the token is still in the table or has
   expired or been removed by the sweep or by another request since. *)
C21_CheckedOnceAtGate ==
    [][\A r \in DOMAIN reqs :
          LET q == reqs[r]
              q2 == reqs'[r]
          IN /\ q.pc \in AfterGate /\ q2 # q
                   => /\ tokenStore' = tokenStore
                      /\ q.userId = issued[q.auth.token].userId
                      /\ q2.userId = q.userId
                      /\ q2.pc = "done" => q2.resp.status # 401
             /\ q.pc = "addMessage" /\ q2.pc = "done" /\ ~q2.failed
                   => /\ q2.resp.status = 201
                      /\ q2.resp.json.user_id = q.userId
                      /\ Len(messages') = Len(messages) + 1
                      /\ messages'[Len(messages')].user_id = q.userId
             /\ q.pc = "updateUser" /\ q2.pc = "done" /\ ~q2.failed
                   => /\ q2.resp.status = 200
                      /\ q2.resp.json.id = q.userId
                      /\ users'[q.userId].name = q.arg.name]_vars

(* a message stored for a request whose token another request had found
   expired, and deleted, before the insert *)
C21_Witness ==
    \E r \in DOMAIN reqs : \E t \in DOMAIN removedBy :
        /\ removedBy[t] = "resolve"
        /\ Answered(r)
        /\ reqs[r].route = "postMessages"
        /\ reqs[r].auth = [scheme |-> "Bearer", token |-> t]
        /\ reqs[r].stale
        /\ reqs[r].resp.status = 201
        /\ reqs[r].resp.json.user_id = issued[t].userId
        /\ messages[Len(messages)].user_id = issued[t].userId

====
